---------------------------- MODULE Spec2Model ----------------------------
(* Red Archive (src/src/archive.c): the packer `pack` and the unpacker     *)
(* `unpack`, as a state machine over the bytes of the archive file.        *)
(*                                                                         *)
(* C arrays are modelled as sequences: the C index i is the sequence       *)
(* index i + 1.  A byte is a number in 0..255.  Memory that the program    *)
(* copies without ever interpreting it (uninitialised malloc memory, a     *)
(* byte copied from past the end of the payload buffer) is the one value   *)
(* Indeterminate.  Bytes the program does interpret after reading them     *)
(* from past the end of a buffer are drawn from OobBytes.  After undefined *)
(* behaviour (ub) the program either goes on as if memory were flat or is  *)
(* killed (UndefinedBehaviourCrash).  Whether plain `char` is signed is a  *)
(* property of the build (charSigned).                                     *)
EXTENDS Integers, Sequences, FiniteSets, TLC

VARIABLES
    charSigned,            \* the build: plain char is signed
    mode,                  \* "unpack": unpack(archive); "roundtrip": pack(folder), then unpack
    folder,                \* the input directory, in readdir order: <<[d_name, data]>>
    dir_i,                 \* pack: readdir position (1-based)
    archive,               \* the bytes of the archive file
    fpos,                  \* unpack: the archive stream position (ftell)
    pc,                    \* the position in pack / unpack
    pack_ret,              \* "none" | "success" | "failure"
    unpack_ret,            \* "none" | "success" | "failure" | "crashed"
    folder_pointer,        \* pack: "null" | "open" | "closed"
    pack_archive_pointer,  \* pack: "null" | "open" | "closed"
    archive_pointer,       \* unpack: "null" | "open" | "closed"
    outdir,                \* the output directory: a set of [name, data]
    filename_buffer,       \* the bytes fread put in filename_buffer
    filename,
    position,
    compressed_size,
    uncompressed_size,
    compression_level,     \* the level byte as stored, 0..255
    compressed_data,
    compressed_pointer,
    uncompressed_data,     \* the bytes stored inside the allocation (index < uncompressed_size)
    uncompressed_pointer,
    sliding_window,        \* the bytes stored at indices 0..max_offset (max_offset is past the allocation)
    sliding_offset,
    flag,
    bit,
    offset,
    run_length,
    run_i,
    heap,                  \* per buffer: "none" | "live" | "freed" | "double" | "used_after_free"
    hdr,                   \* history: the last header's verdict
    dispatched,            \* history: the dispatch on the level has acted on the current entry
    entry_wrote,           \* history: an output file was opened for the current entry
    aborted,               \* history: the current entry left the decoder by goto ESCAPE_LOOP
    out_high,              \* history: the highest index stored to in uncompressed_data (-1: none)
    win_high,              \* history: the highest index of sliding_window read or written (-1: none)
    tok,                   \* history: the last back-reference token decoded
    ub,                    \* history: undefined behaviour has happened
    io_failed              \* history: the environment failed an fopen / opendir

io       == <<mode, folder, dir_i, archive, fpos, outdir>>
ctl      == <<pc, pack_ret, unpack_ret, folder_pointer, pack_archive_pointer, archive_pointer>>
header   == <<filename_buffer, filename, position, compressed_size, uncompressed_size,
              compression_level, compressed_data>>
decoder  == <<compressed_pointer, uncompressed_data, uncompressed_pointer, sliding_window,
              sliding_offset, flag, bit, offset, run_length, run_i>>
history  == <<hdr, dispatched, entry_wrote, aborted, out_high, win_high, tok, ub, io_failed>>
vars     == <<charSigned, io, ctl, header, decoder, heap, history>>

-----------------------------------------------------------------------------
(* Bounds of the model.                                                    *)

MaxPayloadLen == 4
MaxTail == 1
MaxFiles == 2

-----------------------------------------------------------------------------
(* Constants and pure helpers of archive.c.                                *)

FILENAME_SIZE == 13

Indeterminate == -1

Byte == 0..255

OobBytes == {0, 255}

Min(a, b) == IF a < b THEN a ELSE b

Max(a, b) == IF a > b THEN a ELSE b

Pow2(n) == 2 ^ n

BitOf(b, i) == (b \div Pow2(i)) % 2

At(s, i) == s[i + 1]

Repeat(x, n) == [k \in 1..n |-> x]

(* A byte held in a plain char. *)
ToChar(b) == IF charSigned /\ b >= 128 THEN b - 256 ELSE b

(* Four bytes read into an unsigned int. *)
ReadU32(s) == s[1] + 256 * s[2] + 65536 * s[3] + 16777216 * s[4]

(* pack: file_size_bytes[0..3]. *)
file_size_bytes(n) ==
    << n % 256, (n \div 256) % 256, (n \div 65536) % 256, (n \div 16777216) % 256 >>

valid_filename_character_35(character) ==
    \/ (character >= 35 /\ character <= 41)
    \/ (character >= 48 /\ character <= 57)
    \/ (character >= 64 /\ character <= 90)
    \/ (character >= 94 /\ character <= 123)
    \/ character = 33
    \/ character = 45
    \/ character = 46
    \/ character = 125
    \/ character = 126

valid_filename_character(character) ==
    \/ (character >= 36 /\ character <= 41)
    \/ (character >= 48 /\ character <= 57)
    \/ (character >= 64 /\ character <= 90)
    \/ (character >= 94 /\ character <= 123)
    \/ character = 33
    \/ character = 45
    \/ character = 46
    \/ character = 125
    \/ character = 126

(* The validation loop of unpack over the filename_read bytes read, from   *)
(* C index i: TRUE when it leaves by break (or runs out), FALSE when it    *)
(* returns EXIT_FAILURE.                                                   *)
RECURSIVE FilenameLoop(_, _)
FilenameLoop(buf, i) ==
    IF i >= Len(buf) THEN TRUE
    ELSE IF i > 0 /\ At(buf, i) = 0 THEN TRUE
    ELSE IF \/ ~valid_filename_character(ToChar(At(buf, i)))
            \/ (i = Len(buf) - 1 /\ At(buf, i) # 0)
         THEN FALSE
    ELSE FilenameLoop(buf, i + 1)

(* strlen of a buffer that holds a terminator. *)
RECURSIVE strlen(_)
strlen(buf) == IF buf = << >> \/ buf[1] = 0 THEN 0 ELSE 1 + strlen(Tail(buf))

(* fread of up to n bytes at the stream position. *)
ReadBytes(n) == SubSeq(archive, fpos + 1, Min(fpos + n, Len(archive)))

(* free(b). *)
Free(h, b) ==
    [h EXCEPT ![b] = IF @ = "live" THEN "freed"
                     ELSE IF @ = "none" THEN "none" ELSE "double"]

(* A read of buffer b. *)
Use(h, b) ==
    [h EXCEPT ![b] = IF @ \in {"freed", "double"} THEN "used_after_free" ELSE @]

NoHeap == [compressed_data |-> "none", file_path |-> "none",
           uncompressed_data |-> "none", sliding_window |-> "none"]

NoTok == [valid |-> FALSE, b0 |-> 0, b1 |-> 0, offset |-> 0, run_length |-> 0,
          start |-> 0, done |-> FALSE]

(* fopen(file_path, "wb") then fwrite and fclose: the file is replaced. *)
WriteFile(dir, name, data) ==
    {f \in dir : f.name # name} \cup {[name |-> name, data |-> data]}

(* The uncompressed_size bytes fwrite takes from uncompressed_data. *)
FileImage(data, size) ==
    SubSeq(data, 1, Min(Len(data), size)) \o Repeat(Indeterminate, size - Min(Len(data), size))


(* Lines 216, 223-225: the field widths of a window entry of char value    *)
(* level (offset_bits is an unsigned char).                                *)
OffsetBits(level) == (6 - level) % 256

RunLengthBits(level) == 8 - OffsetBits(level)

MaxRunLength(level) == Pow2(RunLengthBits(level)) + 2

MaxOffset(level) == Pow2(OffsetBits(level) + 8) - 1

(* The level as the comparisons of unpack see it. *)
Level == ToChar(compression_level)

IsLiteralInverted(f, b) == BitOf(f, b) = 0

(* Line 245: ((flag >> bit) & 1) == 1. *)
IsLiteral(f, b) == BitOf(f, b) = 1

(* Lines 265-273: the loop over the bits of the first token byte; the      *)
(* result is <<offset, count>>.                                            *)
RECURSIVE FirstByteLoop(_, _, _, _)
FirstByteLoop(b, i, count, off) ==
    IF i = 8 THEN <<off, count>>
    ELSE FirstByteLoop(b, i + 1, count + 1,
                       IF BitOf(b, i) = 1 THEN off + Pow2(count) ELSE off)

(* Lines 274-288: the loop over the bits of the second token byte; the     *)
(* result is <<offset, run_length>>.                                       *)
RECURSIVE SecondByteLoop(_, _, _, _, _, _)
SecondByteLoop(b, ob, i, count, off, rl) ==
    IF i = 8 THEN <<off, rl>>
    ELSE LET c == IF i = ob THEN 0 ELSE count
             set == BitOf(b, i) = 1
         IN  SecondByteLoop(b, ob, i + 1, c + 1,
                            IF set /\ i < ob THEN off + Pow2(c) ELSE off,
                            IF set /\ i >= ob THEN rl + Pow2(c) ELSE rl)

RECURSIVE SecondByteLoopNoReset(_, _, _, _, _, _)
SecondByteLoopNoReset(b, ob, i, count, off, rl) ==
    IF i = 8 THEN <<off, rl>>
    ELSE LET set == BitOf(b, i) = 1
         IN  SecondByteLoopNoReset(b, ob, i + 1, count + 1,
                            IF set /\ i < ob THEN off + Pow2(count) ELSE off,
                            IF set /\ i >= ob THEN rl + Pow2(count) ELSE rl)

DecodeTokenNoReset(b0, b1, ob) ==
    LET first == FirstByteLoop(b0, 0, 0, -1)
    IN  SecondByteLoopNoReset(b1, ob, 0, first[2], first[1], 2)

(* Lines 264-288: <<offset, run_length>> of the token (b0, b1). *)
DecodeToken(b0, b1, ob) ==
    LET first == FirstByteLoop(b0, 0, 0, -1)
    IN  SecondByteLoop(b1, ob, 0, first[2], first[1], 2)

(* Lines 256-260, 316-320, 327-331: the step of a window index. *)
Advance(i, max_offset) == IF i < max_offset THEN i + 1 ELSE 0

NextHeaderPositionDecoded(q, csize, decoded) == q + decoded

(* Line 371: the stream position of the next header. *)
NextHeaderPosition(q, csize, decoded) == q + csize

(* The bytes of compressed_data[from .. from + n - 1] as a copy takes them. *)
CopyFrom(from, n) ==
    [k \in 1..n |-> IF from + k - 1 < compressed_size
                    THEN At(compressed_data, from + k - 1) ELSE Indeterminate]

(* The values compressed_data[i] can have where the program interprets it. *)
DataAt(i) == IF i < compressed_size THEN {At(compressed_data, i)} ELSE OobBytes

(* uncompressed_data after bytes are stored from index at on. *)
StoreOut(data, at, bytes) ==
    IF at >= uncompressed_size THEN data
    ELSE data \o SubSeq(bytes, 1, Min(Len(bytes), uncompressed_size - at))

(* sliding_window after sliding_window[i] = b. *)
StoreWin(w, i, b) == IF i = Len(w) THEN Append(w, b) ELSE [w EXCEPT ![i + 1] = b]

-----------------------------------------------------------------------------
(* unpack.                                                                 *)

(* return r from unpack, after fclose(archive_pointer) when closing. *)
Return(r, closing) ==
    /\ pc' = "done"
    /\ unpack_ret' = r
    /\ archive_pointer' = IF closing THEN "closed" ELSE archive_pointer
    /\ UNCHANGED <<pack_ret, folder_pointer, pack_archive_pointer>>

Goto(label) ==
    /\ pc' = label
    /\ UNCHANGED <<pack_ret, unpack_ret, folder_pointer, pack_archive_pointer, archive_pointer>>

(* The locals of the decoders, out of scope between two entries. *)
DecoderIdle ==
    /\ compressed_pointer' = 0
    /\ uncompressed_data' = << >>
    /\ uncompressed_pointer' = 0
    /\ sliding_window' = << >>
    /\ sliding_offset' = 0
    /\ flag' = 0
    /\ bit' = 0
    /\ offset' = 0
    /\ run_length' = 0
    /\ run_i' = 0

(* Lines 39-47: fopen of the archive, make_folder. *)
UnpackOpen ==
    /\ pc = "unpack_open"
    /\ \E ok \in BOOLEAN :
          IF ok
          THEN /\ archive_pointer' = "open"
               /\ pc' = "header"
               /\ UNCHANGED <<unpack_ret, io_failed>>
          ELSE /\ archive_pointer' = "null"
               /\ pc' = "done"
               /\ unpack_ret' = "failure"
               /\ io_failed' = TRUE
    /\ fpos' = 0
    /\ UNCHANGED <<charSigned, mode, folder, dir_i, archive, outdir, pack_ret, folder_pointer,
                   pack_archive_pointer, header, decoder, heap, hdr, dispatched, entry_wrote,
                   aborted, out_high, win_high, tok, ub>>

(* Lines 50-91: the filename of the next entry, or the end of the archive. *)
Header ==
    /\ pc = "header"
    /\ LET buf == ReadBytes(FILENAME_SIZE)
           filename_read == Len(buf)
       IN  /\ filename_buffer' = buf
           /\ position' = fpos
           /\ IF filename_read = 0
              THEN /\ hdr' = "unread"
                   /\ Return("failure", TRUE)
                   /\ UNCHANGED <<filename, fpos>>
              ELSE IF filename_read = 1 /\ At(buf, 0) = 0
              THEN /\ hdr' = "end"
                   /\ Return("success", TRUE)
                   /\ UNCHANGED <<filename, fpos>>
              ELSE IF ~FilenameLoop(buf, 0)
              THEN /\ hdr' = "rejected"
                   /\ Return("failure", TRUE)
                   /\ UNCHANGED <<filename, fpos>>
              ELSE /\ hdr' = "accepted"
                   /\ filename' = SubSeq(buf, 1, strlen(buf))
                   /\ fpos' = position' + strlen(buf) + 1
                   /\ Goto("sizes")
    /\ heap' = NoHeap
    /\ dispatched' = FALSE
    /\ entry_wrote' = FALSE
    /\ aborted' = FALSE
    /\ out_high' = -1
    /\ win_high' = -1
    /\ tok' = NoTok
    /\ UNCHANGED <<charSigned, mode, folder, dir_i, archive, outdir, compressed_size,
                   uncompressed_size, compression_level, compressed_data, decoder, ub, io_failed>>

(* Lines 93-133: the two sizes, the level, the payload, the output path. *)
Sizes ==
    /\ pc = "sizes"
    /\ LET avail == Len(archive) - fpos
           raw == SubSeq(archive, fpos + 1, fpos + 9)
           csize == ReadU32(SubSeq(raw, 1, 4))
           q == fpos + 9
       IN  IF avail < 9
           THEN /\ Return("failure", TRUE)
                /\ fpos' = Len(archive)
                /\ UNCHANGED <<position, compressed_size, uncompressed_size, compression_level,
                               compressed_data, heap>>
           ELSE /\ compressed_size' = csize
                /\ uncompressed_size' = ReadU32(SubSeq(raw, 5, 8))
                /\ compression_level' = raw[9]
                /\ position' = q
                /\ IF csize = 0 \/ Len(archive) - q < csize
                   THEN /\ Return("failure", TRUE)
                        /\ fpos' = IF csize = 0 THEN q ELSE Len(archive)
                        /\ compressed_data' = << >>
                        /\ heap' = [heap EXCEPT !.compressed_data = "live"]
                   ELSE /\ Goto("dispatch")
                        /\ fpos' = q + csize
                        /\ compressed_data' = SubSeq(archive, q + 1, q + csize)
                        /\ heap' = [heap EXCEPT !.compressed_data = "live", !.file_path = "live"]
    /\ UNCHANGED <<charSigned, mode, folder, dir_i, archive, outdir, filename_buffer, filename,
                   decoder, history>>

(* Lines 136, 156-160, 214-236, 362-365: the dispatch on the level. *)
Dispatch ==
    /\ pc = "dispatch"
    /\ dispatched' = TRUE
    /\ IF Level = 0
       THEN /\ Goto("store")
            /\ UNCHANGED <<decoder, heap, fpos>>
       ELSE IF Level = 1
       THEN /\ Goto("rle")
            /\ heap' = [heap EXCEPT !.uncompressed_data = "live"]
            /\ DecoderIdle
            /\ UNCHANGED fpos
       ELSE IF Level > 1
       THEN IF OffsetBits(Level) > 8
            THEN /\ Goto("header")
                 /\ heap' = Free(Free(heap, "file_path"), "compressed_data")
                 /\ UNCHANGED <<decoder, fpos>>
            ELSE /\ Goto("win_flag")
                 /\ heap' = [heap EXCEPT !.uncompressed_data = "live", !.sliding_window = "live"]
                 /\ DecoderIdle
                 /\ UNCHANGED fpos
       ELSE /\ Return("failure", TRUE)
            /\ UNCHANGED <<decoder, heap, fpos>>
    /\ UNCHANGED <<charSigned, mode, folder, dir_i, archive, outdir, header, hdr, entry_wrote,
                   aborted, out_high, win_high, tok, ub, io_failed>>

(* Lines 137-154: level 0, the payload is the file. *)
Store ==
    /\ pc = "store"
    /\ \E ok \in BOOLEAN :
          IF ok
          THEN /\ Goto("next_entry")
               /\ outdir' = WriteFile(outdir, filename, compressed_data)
               /\ heap' = Free(Free(heap, "file_path"), "compressed_data")
               /\ entry_wrote' = TRUE
               /\ UNCHANGED <<ub, io_failed>>
          ELSE /\ Return("failure", TRUE)
               /\ heap' = Use(Free(heap, "file_path"), "file_path")
               /\ ub' = TRUE
               /\ io_failed' = TRUE
               /\ UNCHANGED <<outdir, entry_wrote>>
    /\ UNCHANGED <<charSigned, mode, folder, dir_i, archive, fpos, header, decoder, hdr,
                   dispatched, aborted, out_high, win_high, tok>>

(* Lines 367-375: free(compressed_data), the seek to the next header. *)
NextEntry ==
    /\ pc = "next_entry"
    /\ heap' = Free(heap, "compressed_data")
    /\ ub' = (ub \/ heap'.compressed_data = "double")
    /\ fpos' = NextHeaderPosition(position, compressed_size, uncompressed_pointer)
    /\ Goto("header")
    /\ DecoderIdle
    /\ UNCHANGED <<charSigned, mode, folder, dir_i, archive, outdir, header, hdr, dispatched,
                   entry_wrote, aborted, out_high, win_high, tok, io_failed>>

(* After undefined behaviour the process may be killed at any point. *)
UndefinedBehaviourCrash ==
    /\ ub
    /\ pc # "done"
    /\ pc' = "done"
    /\ unpack_ret' = "crashed"
    /\ UNCHANGED <<charSigned, io, pack_ret, folder_pointer, pack_archive_pointer,
                   archive_pointer, header, decoder, heap, history>>

-----------------------------------------------------------------------------
(* unpack, level 1: the run-length decoder.                                *)

(* Lines 163-184: one flag byte and its group. *)
RleGroup ==
    /\ pc = "rle"
    /\ compressed_pointer < compressed_size
    /\ LET f == At(compressed_data, compressed_pointer)
           cp == compressed_pointer + 1
           count == IF f > 127 THEN f - 125 ELSE f + 1
           used == IF f > 127 THEN 1 ELSE count
           bytes == IF f > 127 THEN Repeat(CopyFrom(cp, 1)[1], count) ELSE CopyFrom(cp, count)
       IN  /\ flag' = f
           /\ uncompressed_data' = StoreOut(uncompressed_data, uncompressed_pointer, bytes)
           /\ uncompressed_pointer' = uncompressed_pointer + count
           /\ compressed_pointer' = cp + used
           /\ out_high' = Max(out_high, uncompressed_pointer + count - 1)
           /\ ub' = (ub \/ cp + used > compressed_size
                        \/ uncompressed_pointer + count > uncompressed_size)
    /\ Goto("rle")
    /\ UNCHANGED <<charSigned, io, header, sliding_window, sliding_offset, bit, offset,
                   run_length, run_i, heap, hdr, dispatched, entry_wrote, aborted, win_high,
                   tok, io_failed>>

(* Lines 186-212: the output file of a level 1 entry. *)
RleWrite ==
    /\ pc = "rle"
    /\ compressed_pointer >= compressed_size
    /\ \E ok \in BOOLEAN :
          IF ok
          THEN /\ outdir' = WriteFile(outdir, filename,
                                      FileImage(uncompressed_data, uncompressed_size))
               /\ heap' = Free(Free(Free(heap, "compressed_data"), "file_path"),
                               "uncompressed_data")
               /\ entry_wrote' = TRUE
               /\ IF uncompressed_size = 0
                  THEN Return("failure", TRUE)
                  ELSE Goto("next_entry")
               /\ UNCHANGED <<ub, io_failed>>
          ELSE /\ Return("failure", TRUE)
               /\ heap' = Use(Free(Free(Free(heap, "compressed_data"), "file_path"),
                                   "uncompressed_data"), "file_path")
               /\ ub' = TRUE
               /\ io_failed' = TRUE
               /\ UNCHANGED <<outdir, entry_wrote>>
    /\ UNCHANGED <<charSigned, mode, folder, dir_i, archive, fpos, header, decoder, hdr,
                   dispatched, aborted, out_high, win_high, tok>>

-----------------------------------------------------------------------------
(* unpack, level 2 and up: the sliding-window decoder.                     *)

(* Lines 334-337 and the two loop headers: where the decoder goes after a  *)
(* token, with cp bytes of the payload consumed.                           *)
AfterToken(cp) ==
    IF cp >= compressed_size \/ bit + 1 >= 8
    THEN Goto("win_flag") /\ bit' = bit
    ELSE Goto("win_bit") /\ bit' = bit + 1

(* goto ESCAPE_LOOP. *)
EscapeLoop ==
    /\ Goto("escape")
    /\ aborted' = TRUE

(* Lines 238-241: the flag byte of the next group. *)
WinFlag ==
    /\ pc = "win_flag"
    /\ compressed_pointer < compressed_size
    /\ flag' = At(compressed_data, compressed_pointer)
    /\ compressed_pointer' = compressed_pointer + 1
    /\ bit' = 0
    /\ Goto("win_bit")
    /\ UNCHANGED <<charSigned, io, header, uncompressed_data, uncompressed_pointer,
                   sliding_window, sliding_offset, offset, run_length, run_i, heap, history>>

(* Line 340: the payload is used up, free(sliding_window). *)
WinEnd ==
    /\ pc = "win_flag"
    /\ compressed_pointer >= compressed_size
    /\ heap' = Free(heap, "sliding_window")
    /\ Goto("escape")
    /\ UNCHANGED <<charSigned, io, header, decoder, history>>

(* Lines 245-260: a literal. *)
WinLiteral ==
    /\ pc = "win_bit"
    /\ IsLiteral(flag, bit)
    /\ LET byte == CopyFrom(compressed_pointer, 1)[1]
           max_offset == MaxOffset(Level)
       IN  /\ compressed_pointer' = compressed_pointer + 1
           /\ uncompressed_data' = StoreOut(uncompressed_data, uncompressed_pointer, <<byte>>)
           /\ uncompressed_pointer' = uncompressed_pointer + 1
           /\ sliding_window' = StoreWin(sliding_window, sliding_offset, byte)
           /\ sliding_offset' = Advance(sliding_offset, max_offset)
           /\ out_high' = Max(out_high, uncompressed_pointer)
           /\ win_high' = Max(win_high, sliding_offset)
           /\ ub' = (ub \/ compressed_pointer >= compressed_size
                        \/ uncompressed_pointer >= uncompressed_size
                        \/ sliding_offset >= max_offset)
           /\ AfterToken(compressed_pointer + 1)
    /\ UNCHANGED <<charSigned, io, header, flag, offset, run_length, run_i, heap, hdr,
                   dispatched, entry_wrote, aborted, tok, io_failed>>

(* Lines 263-300: a back-reference token and the checks before its run. *)
WinToken ==
    /\ pc = "win_bit"
    /\ ~IsLiteral(flag, bit)
    /\ \E b0 \in DataAt(compressed_pointer), b1 \in DataAt(compressed_pointer + 1) :
          LET d == DecodeToken(b0, b1, OffsetBits(Level))
          IN  /\ offset' = d[1]
              /\ run_length' = d[2]
              /\ tok' = [valid |-> TRUE, b0 |-> b0, b1 |-> b1, offset |-> d[1],
                         run_length |-> d[2], start |-> uncompressed_pointer, done |-> FALSE]
              /\ IF d[1] < 0 \/ d[2] > MaxRunLength(Level)
                 THEN EscapeLoop
                 ELSE Goto("win_run") /\ aborted' = aborted
    /\ compressed_pointer' = compressed_pointer + 2
    /\ run_i' = 0
    /\ ub' = (ub \/ compressed_pointer + 2 > compressed_size)
    /\ UNCHANGED <<charSigned, io, header, uncompressed_data, uncompressed_pointer,
                   sliding_window, sliding_offset, flag, bit, heap, hdr, dispatched,
                   entry_wrote, out_high, win_high, io_failed>>

(* Lines 303-337: one byte of the run. *)
WinRunByte ==
    /\ pc = "win_run"
    /\ LET max_offset == MaxOffset(Level)
       IN  IF offset > max_offset \/ offset >= uncompressed_pointer
           THEN /\ EscapeLoop
                /\ UNCHANGED <<decoder, out_high, win_high, tok, ub>>
           ELSE LET byte == At(sliding_window, offset)
                IN  /\ sliding_window' = StoreWin(sliding_window, sliding_offset, byte)
                    /\ sliding_offset' = Advance(sliding_offset, max_offset)
                    /\ uncompressed_data' =
                           StoreOut(uncompressed_data, uncompressed_pointer, <<byte>>)
                    /\ uncompressed_pointer' = uncompressed_pointer + 1
                    /\ offset' = Advance(offset, max_offset)
                    /\ run_i' = run_i + 1
                    /\ out_high' = Max(out_high, uncompressed_pointer)
                    /\ win_high' = Max(win_high, Max(offset, sliding_offset))
                    /\ ub' = (ub \/ uncompressed_pointer >= uncompressed_size
                                 \/ offset >= max_offset \/ sliding_offset >= max_offset)
                    /\ IF run_i + 1 < run_length
                       THEN Goto("win_run") /\ bit' = bit /\ tok' = tok
                       ELSE AfterToken(compressed_pointer) /\ tok' = [tok EXCEPT !.done = TRUE]
                    /\ aborted' = aborted
                    /\ UNCHANGED <<compressed_pointer, flag, run_length>>
    /\ UNCHANGED <<charSigned, io, header, heap, hdr, dispatched, entry_wrote, io_failed>>

(* Lines 343-360: the size warning and the output file of a window entry. *)
Escape ==
    /\ pc = "escape"
    /\ \E ok \in BOOLEAN :
          IF ok
          THEN /\ outdir' = WriteFile(outdir, filename,
                                      FileImage(uncompressed_data, uncompressed_size))
               /\ heap' = Free(Free(heap, "file_path"), "uncompressed_data")
               /\ entry_wrote' = TRUE
               /\ Goto("next_entry")
               /\ UNCHANGED io_failed
          ELSE /\ Return("failure", FALSE)
               /\ io_failed' = TRUE
               /\ UNCHANGED <<outdir, heap, entry_wrote>>
    /\ UNCHANGED <<charSigned, mode, folder, dir_i, archive, fpos, header, decoder, hdr,
                   dispatched, aborted, out_high, win_high, tok, ub>>

-----------------------------------------------------------------------------
(* pack.                                                                   *)

(* return r from pack. *)
PackReturn(r) ==
    /\ pc' = "done"
    /\ pack_ret' = r
    /\ UNCHANGED <<unpack_ret, archive_pointer>>

Dot == <<46>>

DotDot == <<46, 46>>

(* Lines 434-447: the metadata of an entry, metadata_size = strlen + 10. *)
Metadata(d_name, file_size) ==
    d_name \o <<0>> \o file_size_bytes(file_size) \o file_size_bytes(file_size) \o <<0>>

(* Lines 384-396: opendir, fopen of the archive. *)
PackOpen ==
    /\ pc = "pack_open"
    /\ \E r \in {"ok", "no_folder", "no_archive"} :
          IF r = "ok"
          THEN /\ folder_pointer' = "open"
               /\ pack_archive_pointer' = "open"
               /\ pc' = "pack_loop"
               /\ UNCHANGED <<pack_ret, unpack_ret, archive_pointer, io_failed>>
          ELSE /\ folder_pointer' = IF r = "no_folder" THEN "null" ELSE "open"
               /\ pack_archive_pointer' = "null"
               /\ PackReturn("failure")
               /\ io_failed' = TRUE
    /\ archive' = << >>
    /\ UNCHANGED <<charSigned, mode, folder, dir_i, fpos, outdir, header, decoder, heap, hdr,
                   dispatched, entry_wrote, aborted, out_high, win_high, tok, ub>>

(* Lines 400-455: one directory entry. *)
PackEntry ==
    /\ pc = "pack_loop"
    /\ dir_i <= Len(folder)
    /\ LET file_entry == folder[dir_i]
       IN  IF file_entry.d_name = Dot \/ file_entry.d_name = DotDot
           THEN /\ pc' = "pack_loop"
                /\ UNCHANGED <<archive, pack_ret, unpack_ret, archive_pointer, io_failed>>
           ELSE \E ok \in BOOLEAN :
                   IF ok
                   THEN /\ archive' = archive
                                      \o Metadata(file_entry.d_name, Len(file_entry.data))
                                      \o file_entry.data
                        /\ pc' = "pack_loop"
                        /\ UNCHANGED <<pack_ret, unpack_ret, archive_pointer, io_failed>>
                   ELSE /\ PackReturn("failure")
                        /\ io_failed' = TRUE
                        /\ UNCHANGED archive
    /\ dir_i' = dir_i + 1
    /\ UNCHANGED <<charSigned, mode, folder, fpos, outdir, folder_pointer, pack_archive_pointer,
                   header, decoder, heap, hdr, dispatched, entry_wrote, aborted, out_high,
                   win_high, tok, ub>>

(* Lines 458-469: closedir, the end of file byte, fclose, return 0; the   *)
(* archive then goes to unpack.                                            *)
PackClose ==
    /\ pc = "pack_loop"
    /\ dir_i > Len(folder)
    /\ folder_pointer' = "closed"
    /\ archive' = archive \o <<0>>
    /\ pack_archive_pointer' = "closed"
    /\ pack_ret' = "success"
    /\ pc' = "unpack_open"
    /\ UNCHANGED <<charSigned, mode, folder, dir_i, fpos, outdir, unpack_ret, archive_pointer,
                   header, decoder, heap, history>>

-----------------------------------------------------------------------------
(* The inputs.                                                             *)

NameA == <<65>>

NameB == <<66, 46, 84, 88, 84>>

Name12 == <<65, 66, 67, 68, 69, 70, 71, 72, 46, 84, 88, 84>>

Name13 == <<65, 66, 67, 68, 69, 70, 71, 72, 73, 46, 84, 88, 84>>

NameSpace == <<65, 32, 66>>

(* An archive entry as the format lays it out. *)
Entry(name, level, usize, payload) ==
    [name |-> name, level |-> level, usize |-> usize, payload |-> payload]

Encode(e) ==
    e.name \o <<0>> \o file_size_bytes(Len(e.payload)) \o file_size_bytes(e.usize)
           \o <<e.level>> \o e.payload

RECURSIVE EncodeAll(_)
EncodeAll(es) == IF es = << >> THEN << >> ELSE Encode(Head(es)) \o EncodeAll(Tail(es))

ArchiveOf(es) == EncodeAll(es) \o <<0>>

PayloadBytes == {0, 1, 128, 255}

SweepLevels == {0, 1, 2, 3, 4, 5, 6, 7, 128, 254}

SweepSizes == {0, 2, 260}

Payloads == UNION {[1..k -> PayloadBytes] : k \in 1..MaxPayloadLen}

SweepEntries == {Entry(NameA, l, u, p) : l \in SweepLevels, u \in SweepSizes, p \in Payloads}

Lit8 == <<72, 69, 76, 76, 79, 33, 0, 255>>

XYZ == <<88, 89, 90>>

(* One flag byte and eight more bytes, level 2. *)
Lit8Entry(f) == Entry(NameB, 2, 8, <<f>> \o Lit8)

(* Three literals, then a token of offset 0 and run length 3. *)
XYZEntry(l) == Entry(NameB, l, 6, <<7>> \o XYZ \o <<1, Pow2(6 - l)>>)

(* One literal, then a token of offset 0 and run length 257. *)
LongRunEntry(u) == Entry(NameB, 6, u, <<1, 88, 1, 255>>)

(* A token of offset -1, level 3. *)
CorruptEntry == Entry(NameB, 3, 4, <<0, 0, 0>>)

RleEntry == Entry(NameB, 1, 6, <<2, 65, 66, 67, 128, 88>>)

StoreEntry == Entry(Name12, 0, 2, <<7, 9>>)

SpecialEntries ==
    {Lit8Entry(0), Lit8Entry(255), LongRunEntry(258), LongRunEntry(1), CorruptEntry,
     RleEntry, StoreEntry}
    \cup {XYZEntry(l) : l \in 2..6}
    \cup {Entry(NameB, l, 1, <<5>>) : l \in {7, 127, 128, 253}}

TailEntries == {Entry(NameA, 0, 1, <<65>>), Entry(NameA, 2, 2, <<3, 88, 89>>)}

Tails == UNION {[1..k -> TailEntries] : k \in 0..MaxTail}

(* A 13-byte window: n times 'A', the byte b, then fill. *)
Window(n, b, fill) ==
    [i \in 1..FILENAME_SIZE |-> IF i <= n THEN 65 ELSE IF i = n + 1 THEN b ELSE fill]

Truncations ==
    LET whole == ArchiveOf(<<StoreEntry>>)
    IN  {SubSeq(whole, 1, n) : n \in 0..(Len(whole) - 1)}


FileNames == {NameA, NameB, Name12, Name13, NameSpace}

Contents == {<< >>, <<65>>, <<0, 255>>}

Files == [d_name : FileNames, data : Contents]

Folders ==
    {<<[d_name |-> Dot, data |-> << >>], [d_name |-> DotDot, data |-> << >>]>> \o fs :
        fs \in {s \in UNION {[1..k -> Files] : k \in 0..MaxFiles} :
                   \A i, j \in DOMAIN s : s[i].d_name = s[j].d_name => i = j}}

Init ==
    /\ charSigned \in BOOLEAN
    /\ \/ /\ mode = "unpack"
          /\ \/ \E e \in SweepEntries : archive = ArchiveOf(<<e>>)
             \/ \E e \in SpecialEntries, t \in Tails : archive = ArchiveOf(<<e>> \o t)
             \/ \E n \in 0..(FILENAME_SIZE - 1), b \in Byte, fill \in {0, 47, 65} :
                   archive = Window(n, b, fill)
             \/ archive \in Truncations
          /\ folder = << >>
          /\ pc = "unpack_open"
       \/ /\ mode = "roundtrip"
          /\ archive = << >>
          /\ folder \in Folders
          /\ pc = "pack_open"
    /\ dir_i = 1
    /\ fpos = 0
    /\ pack_ret = "none"
    /\ unpack_ret = "none"
    /\ folder_pointer = "null"
    /\ pack_archive_pointer = "null"
    /\ archive_pointer = "null"
    /\ outdir = {}
    /\ filename_buffer = << >>
    /\ filename = << >>
    /\ position = 0
    /\ compressed_size = 0
    /\ uncompressed_size = 0
    /\ compression_level = 0
    /\ compressed_data = << >>
    /\ compressed_pointer = 0
    /\ uncompressed_data = << >>
    /\ uncompressed_pointer = 0
    /\ sliding_window = << >>
    /\ sliding_offset = 0
    /\ flag = 0
    /\ bit = 0
    /\ offset = 0
    /\ run_length = 0
    /\ run_i = 0
    /\ heap = NoHeap
    /\ hdr = "none"
    /\ dispatched = FALSE
    /\ entry_wrote = FALSE
    /\ aborted = FALSE
    /\ out_high = -1
    /\ win_high = -1
    /\ tok = NoTok
    /\ ub = FALSE
    /\ io_failed = FALSE

Next ==
    \/ PackOpen
    \/ PackEntry
    \/ PackClose
    \/ UnpackOpen
    \/ Header
    \/ Sizes
    \/ Dispatch
    \/ Store
    \/ RleGroup
    \/ RleWrite
    \/ WinFlag
    \/ WinLiteral
    \/ WinToken
    \/ WinRunByte
    \/ WinEnd
    \/ Escape
    \/ NextEntry
    \/ UndefinedBehaviourCrash

Spec == Init /\ [][Next]_vars

-----------------------------------------------------------------------------
(* The properties.                                                         *)

(* The legal filename character codes, as the format documents them. *)
LegalCodes ==
    {33} \cup (36..41) \cup {45, 46} \cup (48..57) \cup (64..90) \cup (94..123) \cup {125, 126}

(* The regular files of the input directory. *)
FolderFiles ==
    {[name |-> folder[i].d_name, data |-> folder[i].data] :
        i \in {j \in DOMAIN folder : folder[j].d_name # Dot /\ folder[j].d_name # DotDot}}

(* The window decoder has left its loop: the payload is used up (the       *)
(* window is not freed yet), or a check sent it to ESCAPE_LOOP.            *)
WinDecoded ==
    \/ (pc = "win_flag" /\ compressed_pointer >= compressed_size)
    \/ (pc = "escape" /\ aborted)

(* C1: round trip.  After pack of a directory and unpack of the archive it *)
(* wrote, with no fopen or opendir failed by the environment, both calls   *)
(* have returned success and the output directory holds exactly the files  *)
(* of the input directory, names and bytes.  Stated here for the           *)
(* directories whose names are 1..12 legal characters (the claim states it *)
(* for every directory).                                                   *)
RoundTrip ==
    ( /\ mode = "roundtrip"
      /\ pc = "done"
      /\ ~io_failed
      /\ \A f \in FolderFiles :
            Len(f.name) \in 1..12 /\ \A i \in DOMAIN f.name : f.name[i] \in LegalCodes )
    => ( /\ pack_ret = "success"
         /\ unpack_ret = "success"
         /\ outdir = FolderFiles )

(* C2: a corrupt window reference is contained in its entry.  Once the     *)
(* window decoder of an entry has left by an invalid offset or run length, *)
(* unpack ends with failure only if the output file cannot be opened, and  *)
(* when it is back at the head of its loop the stream is at the payload    *)
(* start plus compressed_size, unpack has not returned, and the decoder's  *)
(* locals are as at the start of any entry.                                *)
CorruptReferenceContained ==
    aborted =>
        /\ (unpack_ret = "failure" => io_failed)
        /\ (pc = "header" =>
               /\ unpack_ret = "none"
               /\ archive_pointer = "open"
               /\ fpos = position + compressed_size
               /\ compressed_pointer = 0
               /\ uncompressed_pointer = 0
               /\ uncompressed_data = << >>
               /\ sliding_offset = 0
               /\ sliding_window = << >>)

(* C2 witness: an entry left by a corrupt reference, unpack back at the    *)
(* head of its loop with a further entry ahead in the stream.              *)
CorruptReferenceWitness ==
    /\ aborted
    /\ pc = "header"
    /\ fpos + 1 < Len(archive)

(* C3: an unsupported compression level is skipped.  Once the dispatch has *)
(* acted on an entry whose level byte L >= 2 makes (6 - L) mod 256 exceed  *)
(* 8, unpack is at the head of its loop, has not returned, has written no  *)
(* file for the entry, and the stream is right after the payload.          *)
UnsupportedLevelSkipped ==
    ( /\ dispatched
      /\ compression_level >= 2
      /\ (6 - compression_level) % 256 > 8 )
    => ( /\ pc = "header"
         /\ unpack_ret = "none"
         /\ ~entry_wrote
         /\ fpos = position + compressed_size )

(* C4: handles are released on every exit path.  When unpack has returned, *)
(* the archive handle it opened is closed; when pack has returned, the     *)
(* directory handle and the archive handle it opened are closed.           *)
HandlesReleased ==
    /\ (unpack_ret \in {"success", "failure"} => archive_pointer # "open")
    /\ (pack_ret \in {"success", "failure"} =>
           folder_pointer # "open" /\ pack_archive_pointer # "open")

(* C5: per-entry buffers are released exactly once.  On the paths through *)
(* an entry that lead to the next header (unpack has not returned), no     *)
(* buffer of the entry is freed twice or read after its release, and when  *)
(* unpack is back at the head of its loop none is still allocated.         *)
BuffersReleasedOnce ==
    unpack_ret = "none" =>
        \A b \in DOMAIN heap :
            /\ heap[b] \notin {"double", "used_after_free"}
            /\ (pc = "header" => heap[b] # "live")

(* The acceptance rule of the format for a 13-byte window. *)
WindowAccepted(w) ==
    \E k \in 1..12 : (\A j \in 0..(k - 1) : At(w, j) \in LegalCodes) /\ At(w, k) = 0

EightByteEntry(f) ==
    /\ dispatched
    /\ compression_level = 2
    /\ compressed_size = 9
    /\ uncompressed_size = 8
    /\ Len(compressed_data) = 9
    /\ compressed_data[1] = f

EightLiteralsDecoded ==
    /\ uncompressed_data = SubSeq(compressed_data, 2, 9)
    /\ Len(sliding_window) >= 8
    /\ SubSeq(sliding_window, 1, 8) = SubSeq(compressed_data, 2, 9)

(* C7 as stated: the flag byte 0x00 followed by 8 bytes decodes to those 8 *)
(* bytes, which are then the first 8 bytes of the sliding window.          *)
LiteralOnlyFlag00 ==
    (EightByteEntry(0) /\ WinDecoded) => EightLiteralsDecoded

(* C7 amended: the flag byte 0xFF followed by 8 bytes decodes to those 8   *)
(* bytes, which are then the first 8 bytes of the sliding window.          *)
LiteralOnlyFlagFF ==
    (EightByteEntry(255) /\ WinDecoded) => EightLiteralsDecoded

(* C7 witness: the decoder has used up the payload 0xFF and 8 literals. *)
LiteralOnlyWitness ==
    /\ EightByteEntry(255)
    /\ pc = "win_flag"
    /\ compressed_pointer = 9
    /\ uncompressed_pointer = 8

(* C8, the token fields: offset = b0 + 256 * (b1 mod 2^offset_bits) - 1    *)
(* and run_length = 2 + floor(b1 / 2^offset_bits).                         *)
TokenFields ==
    (tok.valid /\ compression_level \in 2..6) =>
        LET weight == Pow2(6 - compression_level)
        IN  /\ tok.offset = tok.b0 + 256 * (tok.b1 % weight) - 1
            /\ tok.run_length = 2 + (tok.b1 \div weight)

(* C8, the run: before its i-th byte the running offset is the token's     *)
(* offset plus i, wrapped to 0 past max_offset, and i bytes are appended.  *)
RunProgress ==
    (pc = "win_run" /\ compression_level \in 2..6) =>
        /\ offset = (tok.offset + run_i) % (MaxOffset(compression_level) + 1)
        /\ uncompressed_pointer = tok.start + run_i
        /\ run_i < tok.run_length

(* C8, the example: after the literals X, Y, Z a token of offset 0 and run *)
(* length 3 makes the output XYZXYZ.                                       *)
XYZXYZ ==
    ( /\ dispatched
      /\ compression_level \in 2..6
      /\ uncompressed_size = 6
      /\ compressed_data = <<7>> \o XYZ \o <<1, Pow2(6 - compression_level)>>
      /\ WinDecoded )
    => ( /\ uncompressed_data = XYZ \o XYZ
         /\ tok.offset = 0
         /\ tok.run_length = 3
         /\ ~aborted )

(* C8, one byte of a run whose checks pass: the byte at the running offset *)
(* of the sliding window is appended to the output and to the sliding      *)
(* window, and the last byte of the run is the run_length-th.              *)
RunByteCopied ==
    ( /\ pc = "win_run"
      /\ compression_level \in 2..6
      /\ pc' \in {"win_run", "win_bit", "win_flag"} )
    => ( /\ uncompressed_pointer' = uncompressed_pointer + 1
         /\ At(sliding_window', sliding_offset) = At(sliding_window, offset)
         /\ (uncompressed_pointer < uncompressed_size =>
                At(uncompressed_data', uncompressed_pointer) = At(sliding_window, offset))
         /\ (pc' # "win_run" => uncompressed_pointer' = tok.start + tok.run_length) )

(* C8: back-reference decoding, for every level in 2..6 and every token.   *)
BackReferenceDecoding ==
    /\ [](TokenFields /\ RunProgress /\ XYZXYZ)
    /\ [][RunByteCopied]_vars

(* C8 witness: the run of the token of offset 0 and run length 3 after the *)
(* literals X, Y, Z is complete.                                           *)
BackReferenceWitness ==
    /\ tok.done
    /\ tok.offset = 0
    /\ tok.run_length = 3
    /\ compression_level \in 2..6
    /\ uncompressed_data = XYZ \o XYZ

(* C9: sliding-window accesses stay inside the window.  In the decode of   *)
(* an entry of level 2..6 every index of the sliding window read or        *)
(* written is at most max_offset - 1.                                      *)
WindowAccessInBounds ==
    (dispatched /\ compression_level \in 2..6) =>
        win_high <= MaxOffset(compression_level) - 1

(* C10: decoded output stays inside the output buffer.  For an entry of    *)
(* level 1 or 2..6 every index stored to in the output buffer is less than *)
(* uncompressed_size.                                                      *)
OutputInBounds ==
    (dispatched /\ compression_level \in 1..6) => out_high < uncompressed_size

=============================================================================
